---- MODULE Spec2Model ----
(***************************************************************************)
(* face-det-rec/train.py: a straight-line script that loads pickled face   *)
(* encodings, encodes the labels, splits the data, runs an SVM grid search *)
(* and an XGBoost randomized search, evaluates both on the test split and  *)
(* pickles the two models and the label encoder.                           *)
(*                                                                         *)
(* Strings that the script sorts (the identity names) are modelled by      *)
(* their rank in lexicographic order: name 1 < name 2 < ...  A face        *)
(* encoding (a 128-d vector) is opaque to the script; sample i of the      *)
(* input file is modelled by its position i.                               *)
(***************************************************************************)
EXTENDS Integers, Sequences, FiniteSets, TLC

\* ------------------------------------------------------------------ bounds
MaxNames == 3
MaxMajor == 7
MaxMinor == 2
MaxTable == 4
ScoreLevels == 5

\* ------------------------------------------------------- program constants
RANDOM_SEED == 1234
FOLDS == 5
PARA_COMB == 20

KNOWN_FACE_ENCODINGS_PATH == "encodings.pickle"
SVM_MODEL_PATH == "svm_face_recognizer.pickle"
XGB_MODEL_PATH == "xgb_face_recognizer.pickle"
LABEL_PATH == "face_labels.pickle"
\* Any file of the machine that the script does not name.
OTHER_PATH == "other"

OutputPaths == {SVM_MODEL_PATH, XGB_MODEL_PATH, LABEL_PATH}
Paths == {KNOWN_FACE_ENCODINGS_PATH, OTHER_PATH} \cup OutputPaths

\* ---------------------------------------------------------------- helpers
Range(s) == {s[i] : i \in DOMAIN s}

Block(p, c) == [i \in 1..c |-> p]

Min(S) == CHOOSE x \in S : \A y \in S : x <= y

RECURSIVE SortedSeq(_)
\* np.unique: the distinct values in ascending order.
SortedSeq(S) == IF S = {} THEN <<>> ELSE <<Min(S)>> \o SortedSeq(S \ {Min(S)})

RECURSIVE SumSeq(_)
SumSeq(s) == IF s = <<>> THEN 0 ELSE Head(s) + SumSeq(Tail(s))

\* Number of positions j <= i of s holding the value s[i], minus one:
\* the rank of sample i among the samples of its own class.
RankInClass(s, i) == Cardinality({j \in 1..i : s[j] = s[i]}) - 1

CountOf(s, c) == Cardinality({j \in DOMAIN s : s[j] = c})

Max(a, b) == IF a >= b THEN a ELSE b

\* ------------------------------------------------- sklearn.LabelEncoder
\* le.fit_transform(names): classes_ are the distinct names in sorted order
\* and every name is replaced by its 0-based position in classes_.
LeFit(names) == SortedSeq(Range(names))

IndexOf(classes, x) == CHOOSE i \in DOMAIN classes : classes[i] = x

\* Variant: positions counted from 1.
LeTransformOneBased(classes, names) ==
    [i \in DOMAIN names |-> IndexOf(classes, names[i])]

LeTransform(classes, names) ==
    [i \in DOMAIN names |-> IndexOf(classes, names[i]) - 1]

LeInverse(classes, idx) == classes[idx + 1]

\* ------------------------------------------------- train_test_split
\* test_size=0.20: n_test = ceil(0.20 * n), the rest is the train set.
NTest(n) == (n + 4) \div 5

\* shuffle=True draws a permutation of the sample positions from the seeded
\* generator.  The generator itself is not modelled: the permutation is one
\* of the rotations of 1..n.
Rot(n, r) == [i \in 1..n |-> ((i - 1 + r) % n) + 1]

Shuffles(n) == IF n = 0 THEN {<<>>} ELSE {Rot(n, r) : r \in 0..(n - 1)}

\* The first n_test positions of the permutation index the test set, the
\* remaining ones the train set; X and y are indexed by the same positions.
TrainTestSplit(X, y, perm) ==
    LET n == Len(X)
        nt == NTest(n)
    IN  [X_test  |-> [i \in 1..nt |-> X[perm[i]]],
         y_test  |-> [i \in 1..nt |-> y[perm[i]]],
         X_train |-> [i \in 1..(n - nt) |-> X[perm[nt + i]]],
         y_train |-> [i \in 1..(n - nt) |-> y[perm[nt + i]]]]

\* ------------------------------------------------- StratifiedKFold.split
\* Without shuffling, the samples of one class are dealt, in order of
\* appearance, to the k folds in contiguous blocks (KFold over
\* max(count, k) slots, trimmed to the class's count).  0-based fold.
TestFold(y, i, k) ==
    LET c == CountOf(y, y[i])
        r == RankInClass(y, i)
        slots == Max(c, k)
        base == slots \div k
        extra == slots % k
    IN  IF r < extra * (base + 1)
        THEN r \div (base + 1)
        ELSE extra + ((r - extra * (base + 1)) \div base)

\* list(skf.split(X, y)): one (train positions, test positions) pair per fold.
SkfSplit(y, k) ==
    [f \in 1..k |->
        [test  |-> {i \in DOMAIN y : TestFold(y, i, k) = f - 1},
         train |-> {i \in DOMAIN y : TestFold(y, i, k) # f - 1}]]

\* split() raises when k exceeds the number of samples or the size of
\* every class.
SkfSplitOk(y, k) ==
    /\ k <= Len(y)
    /\ \E c \in Range(y) : CountOf(y, c) >= k

\* SVC.fit raises on a training part that holds a single class.
FoldsFit(y, cv) ==
    \A f \in DOMAIN cv : Cardinality({y[i] : i \in cv[f].train}) >= 2

\* ------------------------------------------------- the SVM parameter grid
\* Cs and gammas are 0.001, 0.01, 0.1, 1, 10, 100: kept as decimal exponents.
Cs == <<-3, -2, -1, 0, 1, 2>>
gammas == <<-3, -2, -1, 0, 1, 2>>

\* ParameterGrid enumerates the sub-grids in order, the keys of each in
\* sorted order (C, gamma, kernel), the last key varying fastest.  A linear
\* candidate sets no gamma (gamma = <<>>).
SvmParamGrid ==
    [i \in 1..Len(Cs) |-> [kernel |-> "linear", C |-> Cs[i], gamma |-> <<>>]]
    \o
    [i \in 1..(Len(Cs) * Len(gammas)) |->
        [kernel |-> "rbf",
         C |-> Cs[((i - 1) \div Len(gammas)) + 1],
         gamma |-> <<gammas[((i - 1) % Len(gammas)) + 1]>>]]

\* ------------------------------------------------- the XGBoost parameters
\* subsample, colsample_bytree and gamma are kept in tenths.
XgbParamLists ==
    [min_child_weight |-> <<1, 5, 10>>,
     gamma            |-> <<5, 10, 15, 20, 50>>,
     subsample        |-> <<6, 8, 10>>,
     colsample_bytree |-> <<6, 8, 10>>,
     max_depth        |-> <<3, 4, 5>>]

XgbGridSize ==
    Len(XgbParamLists.min_child_weight) * Len(XgbParamLists.gamma)
    * Len(XgbParamLists.subsample) * Len(XgbParamLists.colsample_bytree)
    * Len(XgbParamLists.max_depth)

\* ParameterSampler(param_distributions, n_iter, random_state): every entry
\* is a list, so n_iter distinct points of the grid are drawn with the seeded
\* generator.  The generator is not modelled; the draw is a fixed function of
\* the seed that yields distinct grid positions.
XgbSample(n_iter, seed) ==
    [j \in 1..n_iter |-> ((seed * j) % XgbGridSize) + 1]

\* ------------------------------------------------- cross-validation scores
\* The score of candidate c on fold f (its accuracy on the fold's test part)
\* is decided by the data and the library's numerics, which are not
\* modelled.  It is a level 0..ScoreLevels-1 read from a table selected by
\* the oracle value `table`.
FoldScore(table, c, f) ==
    (((c * c * table) + (f * f * c) + (table * f)) \div (f + 1)) % ScoreLevels

\* mean_test_score with iid=False is the unweighted mean over the folds; all
\* candidates have the same number of folds, so it is kept as the sum.
MeanTestScore(table, c, nfolds) ==
    SumSeq([f \in 1..nfolds |-> FoldScore(table, c, f)])

\* Variant: the ranking is inverted.
BestIndexWorst(means) ==
    Min({c \in DOMAIN means : \A d \in DOMAIN means : means[c] <= means[d]})

\* best_index_: the first candidate of rank 1, i.e. the lowest index among
\* the candidates with the greatest mean score.
BestIndex(means) ==
    Min({c \in DOMAIN means : \A d \in DOMAIN means : means[c] >= means[d]})

\* ------------------------------------------------------------------ state
VARIABLES
    pc,           \* the statement the script executes next
    trace,        \* the steps completed so far, in order
    disk,         \* path -> file
    disk0,        \* the disk as the run found it
    oracle,       \* which score table the data gives rise to
    data_pickle,  \* the unpickled input
    data,         \* np.array(data_pickle['encodings'])
    le,           \* the LabelEncoder
    labels,       \* the encoded labels
    X_train, X_test, y_train, y_test,
    skf,          \* n_splits of the StratifiedKFold, 0 before it is built
    target_names,
    svm_search,   \* cv_results_ of the grid search
    xgb_search,   \* cv_results_ of the randomized search
    best_svm, best_xgb,
    y_pred

vars == <<pc, trace, disk, disk0, oracle, data_pickle, data, le, labels,
          X_train, X_test, y_train, y_test, skf, target_names,
          svm_search, xgb_search, best_svm, best_xgb, y_pred>>

memory == <<data_pickle, data, le, labels, X_train, X_test, y_train, y_test,
            skf, target_names, svm_search, xgb_search, best_svm, best_xgb,
            y_pred>>

\* Variant: both models are trained before anything is saved.
StepOrderSavesLast ==
    <<"load", "encode", "split", "skf", "svm_search", "svm_eval",
      "xgb_search", "xgb_eval", "svm_save", "xgb_save", "le_save">>

\* Variant: the SVM model is saved before its search has run.
StepOrderSaveBeforeSearch ==
    <<"load", "encode", "split", "skf", "svm_save", "svm_search", "svm_eval",
      "xgb_search", "xgb_eval", "xgb_save", "le_save">>

\* Variant: the label encoder is never saved.
StepOrderNoLabelSave ==
    <<"load", "encode", "split", "skf", "svm_search", "svm_eval", "svm_save",
      "xgb_search", "xgb_eval", "xgb_save">>

\* The statements of the script, top to bottom.
StepOrder ==
    <<"load", "encode", "split", "skf", "svm_search", "svm_eval", "svm_save",
      "xgb_search", "xgb_eval", "xgb_save", "le_save">>

\* ------------------------------------------------------------ the objects
\* An estimator: its kind, the position of its parameters in the searched
\* grid, and the samples and labels it was last fit on.
NoModel == [kind |-> "none", params |-> 0, fit_X |-> <<>>, fit_y |-> <<>>]

NoSearch ==
    [X |-> <<>>, y |-> <<>>, cv |-> <<>>, candidates |-> <<>>, scored |-> {},
     mean_test_score |-> <<>>, best_index_ |-> 0, best_estimator_ |-> NoModel]

NoPickle == [kind |-> "none", run |-> 0, est |-> NoModel, names |-> <<>>, n_enc |-> 0]

\* What pickle.dumps writes.  `run` tells the runs apart: 1 is the run the
\* model follows, 0 an earlier run of the script.
PickledModel(run, est) ==
    [kind |-> est.kind, run |-> run, est |-> est, names |-> <<>>, n_enc |-> 0]

PickledEncoder(run, enc) ==
    [kind |-> "le", run |-> run, est |-> NoModel, names |-> enc.classes_, n_enc |-> 0]

PickledDataset(n_enc, names) ==
    [kind |-> "dataset", run |-> 0, est |-> NoModel, names |-> names, n_enc |-> n_enc]

Garbage == [NoPickle EXCEPT !.kind = "garbage"]

\* ------------------------------------------------------------- the files
Absent == [exists |-> FALSE, content |-> <<>>]
Truncated == [exists |-> TRUE, content |-> <<>>]
FileOf(blob) == [exists |-> TRUE, content |-> <<blob>>]

\* open(path, 'wb') creates the file or truncates it to length zero.
OpenWb(d, path) == [d EXCEPT ![path] = Truncated]

\* Variant: the file is opened in append mode ('ab').
WriteFileAppend(d, path, blob) ==
    [d EXCEPT ![path] = [exists |-> TRUE, content |-> Append(d[path].content, blob)]]

\* with open(path, 'wb') as outfile: outfile.write(pickle.dumps(obj))
WriteFile(d, path, blob) ==
    LET opened == OpenWb(d, path)
    IN  [opened EXCEPT ![path].content = Append(opened[path].content, blob)]

\* ------------------------------------------------------------ the searches
\* find_best_svm_estimator(X, y, cv, random_seed): GridSearchCV.fit scores
\* every candidate of the grid on every fold of cv, ranks the candidates by
\* mean score and refits the best one on all of X, y.
find_best_svm_estimator(X, y, cv, random_seed) ==
    LET grid == SvmParamGrid
        means == [c \in DOMAIN grid |-> MeanTestScore(oracle, c, Len(cv))]
        best == BestIndex(means)
    IN  [X |-> X, y |-> y, cv |-> cv,
         candidates |-> [c \in DOMAIN grid |-> c],
         scored |-> {<<c, f>> : c \in DOMAIN grid, f \in DOMAIN cv},
         mean_test_score |-> means,
         best_index_ |-> best,
         best_estimator_ |->
             [kind |-> "svm", params |-> best, fit_X |-> X, fit_y |-> y]]

\* find_best_xgb_estimator(X, y, cv, param_comb, random_seed):
\* RandomizedSearchCV.fit does the same over param_comb sampled candidates.
find_best_xgb_estimator(X, y, cv, param_comb, random_seed) ==
    LET cands == XgbSample(param_comb, random_seed)
        means == [j \in DOMAIN cands |-> MeanTestScore(oracle, cands[j], Len(cv))]
        best == BestIndex(means)
    IN  [X |-> X, y |-> y, cv |-> cv,
         candidates |-> cands,
         scored |-> {<<j, f>> : j \in DOMAIN cands, f \in DOMAIN cv},
         mean_test_score |-> means,
         best_index_ |-> best,
         best_estimator_ |->
             [kind |-> "xgb", params |-> cands[best], fit_X |-> X, fit_y |-> y]]

\* The search raises when the folds cannot be built or a candidate cannot be
\* fit on the training part of a fold.
SearchRuns(y, k) ==
    /\ k > 0
    /\ SkfSplitOk(y, k)
    /\ FoldsFit(y, SkfSplit(y, k))

\* Variant: the search is given the whole dataset.
SvmSearchCallAllData ==
    find_best_svm_estimator(data, labels, SkfSplit(labels, skf), RANDOM_SEED)

\* The call of line 116.
SvmSearchCall ==
    find_best_svm_estimator(X_train, y_train, SkfSplit(y_train, skf), RANDOM_SEED)

\* The call of lines 128-129.
XgbSearchCall ==
    find_best_xgb_estimator(X_train, y_train, SkfSplit(y_train, skf),
                            PARA_COMB, RANDOM_SEED)

\* est.predict(X): one class per sample, among the classes est was fit on.
Predictions(est, X) == [DOMAIN X -> Range(est.fit_y)]

\* classification_report(y_true, y_pred, target_names=names) without labels=
\* reports on the labels that occur in y_true or y_pred and raises
\* ValueError when their number differs from the number of names.
ReportLabels(yt, yp) == Range(yt) \cup Range(yp)

ReportOk(yt, yp, names) == Cardinality(ReportLabels(yt, yp)) = Len(names)

\* ------------------------------------------------------------ control flow
StepIndex(step) == CHOOSE i \in DOMAIN StepOrder : StepOrder[i] = step

\* The statement that follows `step` in the script.
After(step) ==
    IF StepIndex(step) = Len(StepOrder) THEN "done"
    ELSE StepOrder[StepIndex(step) + 1]

Completed(step) ==
    /\ pc' = After(step)
    /\ trace' = Append(trace, step)
    /\ oracle' = oracle
    /\ disk0' = disk0

\* ---------------------------------------------------------------- actions
\* Lines 39-43: unpickle the encodings file and build the data array.
\* open() raises on a missing file, pickle.load on a file that is no pickle,
\* the subscripts on an object without 'encodings' and 'names'.
Load ==
    /\ pc = "load"
    /\ disk[KNOWN_FACE_ENCODINGS_PATH].exists
    /\ Len(disk[KNOWN_FACE_ENCODINGS_PATH].content) = 1
    /\ disk[KNOWN_FACE_ENCODINGS_PATH].content[1].kind = "dataset"
    /\ data_pickle' = disk[KNOWN_FACE_ENCODINGS_PATH].content[1]
    /\ data' = [i \in 1..data_pickle'.n_enc |-> i]
    /\ Completed("load")
    /\ UNCHANGED <<disk, le, labels, X_train, X_test, y_train, y_test, skf,
                   target_names, svm_search, xgb_search, best_svm, best_xgb,
                   y_pred>>

\* Lines 48-49: le = LabelEncoder(); labels = le.fit_transform(names).
FitTransform(names) ==
    LET classes == LeFit(names)
    IN  [le |-> [fitted |-> TRUE, classes_ |-> classes],
         labels |-> LeTransform(classes, names)]

Encode ==
    /\ pc = "encode"
    /\ le' = FitTransform(data_pickle.names).le
    /\ labels' = FitTransform(data_pickle.names).labels
    /\ Completed("encode")
    /\ UNCHANGED <<disk, data_pickle, data, X_train, X_test, y_train, y_test,
                   skf, target_names, svm_search, xgb_search, best_svm,
                   best_xgb, y_pred>>

\* Lines 107-108: train_test_split raises on arrays of different lengths
\* and on a dataset too small to leave a sample for the train set.
Split ==
    /\ pc = "split"
    /\ Len(data) = Len(labels)
    /\ Len(data) - NTest(Len(data)) >= 1
    /\ \E perm \in Shuffles(Len(data)) :
         LET s == TrainTestSplit(data, labels, perm)
         IN  /\ X_train' = s.X_train
             /\ X_test' = s.X_test
             /\ y_train' = s.y_train
             /\ y_test' = s.y_test
    /\ Completed("split")
    /\ UNCHANGED <<disk, data_pickle, data, le, labels, skf, target_names,
                   svm_search, xgb_search, best_svm, best_xgb, y_pred>>

\* Lines 111-113: the splitter object and the report's target names.
BuildSkf ==
    /\ pc = "skf"
    /\ skf' = FOLDS
    /\ target_names' = le.classes_
    /\ Completed("skf")
    /\ UNCHANGED <<disk, data_pickle, data, le, labels, X_train, X_test,
                   y_train, y_test, svm_search, xgb_search, best_svm,
                   best_xgb, y_pred>>

\* Line 116.
SvmSearch ==
    /\ pc = "svm_search"
    /\ SearchRuns(SvmSearchCall.y, Len(SvmSearchCall.cv))
    /\ svm_search' = SvmSearchCall
    /\ best_svm' = SvmSearchCall.best_estimator_
    /\ Completed("svm_search")
    /\ UNCHANGED <<disk, data_pickle, data, le, labels, X_train, X_test,
                   y_train, y_test, skf, target_names, xgb_search, best_xgb,
                   y_pred>>

\* Lines 118-122: predict on the test set, print the confusion matrix and
\* the classification report.
Evaluate(est) ==
    /\ est.kind # "none"
    /\ \E p \in Predictions(est, X_test) :
         /\ ReportOk(y_test, p, target_names)
         /\ y_pred' = p

SvmEval ==
    /\ pc = "svm_eval"
    /\ Evaluate(best_svm)
    /\ Completed("svm_eval")
    /\ UNCHANGED <<disk, data_pickle, data, le, labels, X_train, X_test,
                   y_train, y_test, skf, target_names, svm_search, xgb_search,
                   best_svm, best_xgb>>

\* Lines 124-125.
SvmSave ==
    /\ pc = "svm_save"
    /\ disk' = WriteFile(disk, SVM_MODEL_PATH, PickledModel(1, best_svm))
    /\ Completed("svm_save")
    /\ UNCHANGED memory

\* Lines 128-129.
XgbSearch ==
    /\ pc = "xgb_search"
    /\ SearchRuns(XgbSearchCall.y, Len(XgbSearchCall.cv))
    /\ xgb_search' = XgbSearchCall
    /\ best_xgb' = XgbSearchCall.best_estimator_
    /\ Completed("xgb_search")
    /\ UNCHANGED <<disk, data_pickle, data, le, labels, X_train, X_test,
                   y_train, y_test, skf, target_names, svm_search, best_svm,
                   y_pred>>

\* Lines 131-135.
XgbEval ==
    /\ pc = "xgb_eval"
    /\ Evaluate(best_xgb)
    /\ Completed("xgb_eval")
    /\ UNCHANGED <<disk, data_pickle, data, le, labels, X_train, X_test,
                   y_train, y_test, skf, target_names, svm_search, xgb_search,
                   best_svm, best_xgb>>

\* Lines 137-138.
XgbSave ==
    /\ pc = "xgb_save"
    /\ disk' = WriteFile(disk, XGB_MODEL_PATH, PickledModel(1, best_xgb))
    /\ Completed("xgb_save")
    /\ UNCHANGED memory

\* Lines 142-143.
LeSave ==
    /\ pc = "le_save"
    /\ disk' = WriteFile(disk, LABEL_PATH, PickledEncoder(1, le))
    /\ Completed("le_save")
    /\ UNCHANGED memory

\* The file a save step writes.
TargetOf(step) ==
    CASE step = "svm_save" -> SVM_MODEL_PATH
      [] step = "xgb_save" -> XGB_MODEL_PATH
      [] step = "le_save" -> LABEL_PATH

SaveSteps == {"svm_save", "xgb_save", "le_save"}

\* Variant: a handler removes the output files when a statement raises.
RaiseWithCleanup ==
    /\ pc \in {"load", "encode", "split", "skf", "svm_search", "svm_eval",
               "svm_save", "xgb_search", "xgb_eval", "xgb_save", "le_save"}
    /\ pc' = "failed"
    /\ disk' = [p \in Paths |-> IF p \in OutputPaths THEN Absent ELSE disk[p]]
    /\ UNCHANGED <<trace, disk0, oracle, memory>>

\* No statement is inside try/except: an exception raised by the current
\* statement ends the script there.  Nothing on disk changes ...
Raise ==
    /\ pc \in Range(StepOrder)
    /\ pc' = "failed"
    /\ UNCHANGED <<trace, disk, disk0, oracle, memory>>

\* ... unless the statement is a save whose open() succeeded: the file is
\* then left created or truncated, without the complete pickle.
RaiseInWrite ==
    /\ pc \in SaveSteps
    /\ pc' = "failed"
    /\ disk' = OpenWb(disk, TargetOf(pc))
    /\ UNCHANGED <<trace, disk0, oracle, memory>>

Next ==
    \/ Load
    \/ Encode
    \/ Split
    \/ BuildSkf
    \/ SvmSearch
    \/ SvmEval
    \/ SvmSave
    \/ XgbSearch
    \/ XgbEval
    \/ XgbSave
    \/ LeSave
    \/ Raise
    \/ RaiseInWrite

\* ---------------------------------------------------------- initial states
Names == 1..MaxNames

InputFile(names) == FileOf(PickledDataset(Len(names), names))

\* Input files whose names come in three runs: up to MaxMajor samples of one
\* person, up to MaxMinor samples of a second and at most one sample of a
\* third (the persons need not differ, nor come in sorted order).
DatasetInputs ==
    {InputFile(Block(p, a) \o Block(q, b) \o Block(r, c)) :
        p \in Names, q \in Names, r \in Names,
        a \in 0..MaxMajor, b \in 0..MaxMinor, c \in 0..1}

\* A missing file, an empty file, a file that is no pickle of a dataset, a
\* dataset with one encoding less than names, and the largest datasets of
\* two persons.
FewInputs ==
    {Absent, Truncated, FileOf(Garbage),
     FileOf(PickledDataset(MaxMajor + MaxMinor - 1,
                           Block(1, MaxMajor) \o Block(2, MaxMinor)))}
    \cup {InputFile(Block((p % MaxNames) + 1, MaxMajor) \o Block(p, MaxMinor)) :
            p \in Names}

\* What an earlier run of the script can have left at an output path:
\* nothing, a file cut short by a failed write, or a complete pickle.
PriorPickle(path) ==
    IF path = LABEL_PATH
    THEN PickledEncoder(0, [fitted |-> TRUE, classes_ |-> <<1>>])
    ELSE PickledModel(0, [kind |-> IF path = SVM_MODEL_PATH THEN "svm" ELSE "xgb",
                          params |-> 1, fit_X |-> <<1>>, fit_y |-> <<0>>])

PriorFiles(path) == {Absent, Truncated, FileOf(PriorPickle(path))}

InitMemory ==
    /\ data_pickle = NoPickle
    /\ data = <<>>
    /\ le = [fitted |-> FALSE, classes_ |-> <<>>]
    /\ labels = <<>>
    /\ X_train = <<>> /\ X_test = <<>> /\ y_train = <<>> /\ y_test = <<>>
    /\ skf = 0
    /\ target_names = <<>>
    /\ svm_search = NoSearch /\ xgb_search = NoSearch
    /\ best_svm = NoModel /\ best_xgb = NoModel
    /\ y_pred = <<>>

InitDisk(inputs, svms, xgbs, les) ==
    \E inp \in inputs, s \in svms, x \in xgbs, l \in les :
        disk = [p \in Paths |->
                  CASE p = KNOWN_FACE_ENCODINGS_PATH -> inp
                    [] p = SVM_MODEL_PATH -> s
                    [] p = XGB_MODEL_PATH -> x
                    [] p = LABEL_PATH -> l
                    [] OTHER -> FileOf(Garbage)]
    /\ disk0 = disk

\* The script starts on a disk that earlier runs may have written.
Init ==
    /\ pc = "load" /\ trace = <<>> /\ oracle = 1
    /\ InitDisk(FewInputs, PriorFiles(SVM_MODEL_PATH), PriorFiles(XGB_MODEL_PATH),
                PriorFiles(LABEL_PATH))
    /\ InitMemory

Spec == Init /\ [][Next]_vars

\* The script starts on a clean disk, on any of the two-run datasets.
InitData ==
    /\ pc = "load" /\ trace = <<>> /\ oracle = 1
    /\ InitDisk(DatasetInputs, {Absent}, {Absent}, {Absent})
    /\ InitMemory

SpecData == InitData /\ [][Next]_vars

\* The script starts on a clean disk; the data gives any of the score tables.
InitSearch ==
    /\ pc = "load" /\ trace = <<>> /\ oracle \in 1..MaxTable
    /\ InitDisk(FewInputs, {Absent}, {Absent}, {Absent})
    /\ InitMemory

SpecSearch == InitSearch /\ [][Next]_vars

\* ================================================================= claims
\* The order of the steps as the specification states it.
ClaimedOrder ==
    <<"load", "encode", "split", "skf", "svm_search", "svm_eval", "svm_save",
      "xgb_search", "xgb_eval", "xgb_save", "le_save">>

Pos(step) == CHOOSE i \in DOMAIN ClaimedOrder : ClaimedOrder[i] = step

\* The run has started (or completed) the given step.
Reached(step) == Len(trace) + 1 >= Pos(step)

SaveStepOf(path) ==
    CASE path = SVM_MODEL_PATH -> "svm_save"
      [] path = XGB_MODEL_PATH -> "xgb_save"
      [] path = LABEL_PATH -> "le_save"

\* The file holds a pickle written by the run under way.
WrittenThisRun(path) ==
    /\ disk[path].exists
    /\ Len(disk[path].content) >= 1
    /\ disk[path].content[1].run = 1

\* C1: in every run the steps complete in the stated order (load, encode,
\* split, k-fold splitter, SVM search, SVM evaluation, SVM save, XGB search,
\* XGB evaluation, XGB save, label-encoder save), each after the previous
\* one, none twice, and the label-encoder file is the last write.
C1_StepsInOrder ==
    /\ Len(trace) <= Len(ClaimedOrder)
    /\ \A i \in DOMAIN trace : trace[i] = ClaimedOrder[i]
    /\ pc = "done" => trace = ClaimedOrder
    /\ pc \notin {"done", "failed"} =>
          Len(trace) < Len(ClaimedOrder) /\ pc = ClaimedOrder[Len(trace) + 1]
    /\ WrittenThisRun(LABEL_PATH) => pc = "done"

C1_Witness == pc = "done" /\ trace = ClaimedOrder /\ WrittenThisRun(LABEL_PATH)

\* C2 as stated: whenever any of the three artifact files has been written
\* by the run, the searches of both models have completed.
C2_WrittenAfterBothSearches ==
    \A p \in OutputPaths :
        WrittenThisRun(p) => {"svm_search", "xgb_search"} \subseteq Range(trace)

TrainedFor(path) ==
    IF path = SVM_MODEL_PATH
    THEN "svm_search" \in Range(trace) /\ "xgb_search" \notin Range(trace)
    ELSE {"svm_search", "xgb_search"} \subseteq Range(trace)

\* C2 as amended: a step changes the SVM model file only after the SVM search
\* has completed (and before the boosted-tree search has), and changes the
\* boosted-tree model file or the label-encoder file only after both
\* searches have completed.
C2_WrittenAfterOwnTraining ==
    [][\A p \in OutputPaths : disk'[p] # disk[p] => TrainedFor(p)]_vars

C2_Witness == WrittenThisRun(SVM_MODEL_PATH) /\ pc = "xgb_search"

\* C3: a failure ends the run at the failing step (no step follows it), and
\* every output file whose save step the run has not reached holds what it
\* held before the run; after a failed load no output file has changed.
C3_FailureStopsRun ==
    /\ [](\A p \in OutputPaths : ~Reached(SaveStepOf(p)) => disk[p] = disk0[p])
    /\ [](pc = "failed" /\ trace = <<>> => \A p \in OutputPaths : disk[p] = disk0[p])
    /\ [][pc # "failed" /\ (pc' = "failed" => trace' = trace)]_vars

C3_Witness ==
    /\ pc = "failed"
    /\ Len(trace) = Pos("xgb_search") - 1
    /\ WrittenThisRun(SVM_MODEL_PATH)
    /\ disk[LABEL_PATH] = FileOf(PriorPickle(LABEL_PATH))

\* C4: a run that completes leaves exactly the pickle of its SVM model, of
\* its boosted-tree model and of its label encoder at the three output
\* paths, whatever they held before, and every other file as it was.
C4_CompleteRunWritesThree ==
    pc = "done" =>
        /\ disk[SVM_MODEL_PATH] = FileOf(PickledModel(1, best_svm))
        /\ disk[XGB_MODEL_PATH] = FileOf(PickledModel(1, best_xgb))
        /\ disk[LABEL_PATH] = FileOf(PickledEncoder(1, le))
        /\ \A p \in Paths \ OutputPaths : disk[p] = disk0[p]

C4_Witness ==
    /\ pc = "done"
    /\ disk0[SVM_MODEL_PATH] = FileOf(PriorPickle(SVM_MODEL_PATH))
    /\ disk0[LABEL_PATH] = Truncated

\* The output files that exist each hold one complete pickle, all of the
\* same run, and no model file is without a label-encoder file.
OneRun(d) ==
    /\ \E r \in {0, 1} :
         \A p \in OutputPaths :
            d[p].exists => Len(d[p].content) = 1 /\ d[p].content[1].run = r
    /\ (d[SVM_MODEL_PATH].exists \/ d[XGB_MODEL_PATH].exists) => d[LABEL_PATH].exists

C5_Bijection ==
    LET names == data_pickle.names
        classes == le.classes_
        k == Cardinality(Range(names))
    IN  /\ le.fitted <=> "encode" \in Range(trace)
        /\ Cardinality({i \in DOMAIN trace : trace[i] = "encode"}) <= 1
        /\ "split" \in Range(trace) => le.fitted
        /\ le.fitted =>
              /\ Len(classes) = k
              /\ Range(classes) = Range(names)
              /\ Len(labels) = Len(names)
              /\ Range(labels) = 0..(k - 1)
              /\ \A i, j \in DOMAIN names :
                    (names[i] = names[j]) <=> (labels[i] = labels[j])
              /\ \A i \in DOMAIN names : LeInverse(classes, labels[i]) = names[i]
        /\ WrittenThisRun(LABEL_PATH) =>
              /\ disk[LABEL_PATH].content = <<PickledEncoder(1, le)>>
              /\ disk[LABEL_PATH].content[1].names = SortedSeq(Range(names))

\* C5, over a whole run: the bijection holds from the fit on, and no step
\* after the fit changes the encoder or the encoded labels.
C5_LabelEncoding ==
    /\ []C5_Bijection
    /\ [][le.fitted => (le' = le /\ labels' = labels)]_vars

C5_Witness ==
    /\ pc = "done"
    /\ Len(le.classes_) = 3
    /\ data_pickle.names[1] > data_pickle.names[Len(data_pickle.names)]
    /\ labels[1] # data_pickle.names[1]

\* The parts of C6 that do not depend on the size of the test set.
HeldOut ==
    /\ Range(X_train) \cap Range(X_test) = {}
    /\ Range(X_train) \cup Range(X_test) = Range(data)
    /\ Len(X_train) + Len(X_test) = Len(data)
    /\ Len(y_train) = Len(X_train) /\ Len(y_test) = Len(X_test)
    /\ \A i \in DOMAIN X_train : y_train[i] = labels[X_train[i]]
    /\ \A i \in DOMAIN X_test : y_test[i] = labels[X_test[i]]
    /\ \A s \in {svm_search, xgb_search} :
          s.best_index_ # 0 =>
            /\ Range(s.X) \subseteq Range(X_train)
            /\ Range(s.X) \cap Range(X_test) = {}
            /\ \A f \in DOMAIN s.cv :
                  {s.X[i] : i \in s.cv[f].train \cup s.cv[f].test}
                      \subseteq Range(X_train)
            /\ Range(s.best_estimator_.fit_X) \subseteq Range(X_train)
            /\ Range(s.best_estimator_.fit_X) \cap Range(X_test) = {}
    /\ Range(best_svm.fit_X) \cap Range(X_test) = {}
    /\ Range(best_xgb.fit_X) \cap Range(X_test) = {}
    /\ y_pred # <<>> => DOMAIN y_pred = DOMAIN X_test

\* C6 as stated: the split partitions the samples into a train and a test
\* set, the test set is 20% of the samples, encodings stay paired with their
\* labels, and searches, folds and final fits use training samples only.
C6_HeldOutTwentyPercent ==
    "split" \in Range(trace) =>
        /\ 5 * Len(X_test) = Len(data)
        /\ HeldOut

\* C6 as amended: the same, with a test set of 20% of the samples rounded up
\* to a whole number of samples.
C6_HeldOutTwentyPercentRoundedUp ==
    "split" \in Range(trace) =>
        /\ 5 * Len(X_test) >= Len(data)
        /\ 5 * (Len(X_test) - 1) < Len(data)
        /\ HeldOut

C6_Witness ==
    /\ pc = "done"
    /\ Len(data) = 9
    /\ Len(X_test) = 2
    /\ Cardinality(Range(y_test)) = 2

\* C7: the grid has 42 configurations (6 linear, 36 rbf), each is scored on
\* each of the 5 folds, and the estimator returned has a configuration whose
\* mean score is at least that of every configuration of the grid.
C7_ExhaustiveBest ==
    svm_search.best_index_ # 0 =>
        /\ Len(SvmParamGrid) = 42
        /\ Cardinality(Range(SvmParamGrid)) = 42
        /\ Cardinality({c \in Range(SvmParamGrid) : c.kernel = "linear"}) = 6
        /\ Cardinality({c \in Range(SvmParamGrid) : c.kernel = "rbf"}) = 36
        /\ Len(svm_search.cv) = 5
        /\ svm_search.scored = (1..42) \X (1..5)
        /\ \A c \in 1..42 :
              /\ svm_search.mean_test_score[c]
                    = SumSeq([f \in 1..5 |-> FoldScore(oracle, c, f)])
              /\ svm_search.mean_test_score[best_svm.params]
                    >= svm_search.mean_test_score[c]
        /\ best_svm = svm_search.best_estimator_

C7_Witness ==
    /\ pc = "done"
    /\ best_svm.params > 6
    /\ \E c \in 1..42 :
          svm_search.mean_test_score[c] < svm_search.mean_test_score[best_svm.params]

\* C10: at each evaluation, whatever the model predicts, the classes that
\* occur in the test labels or the predictions are all the classes of the
\* label encoder, so that the report gets one target name per class.
C10_ReportCoversEveryClass ==
    /\ pc = "svm_eval" =>
          \A p \in Predictions(best_svm, X_test) :
              ReportLabels(y_test, p) = {i - 1 : i \in DOMAIN le.classes_}
    /\ pc = "xgb_eval" =>
          \A p \in Predictions(best_xgb, X_test) :
              ReportLabels(y_test, p) = {i - 1 : i \in DOMAIN le.classes_}

====
